---- MODULE Spec2Model ----
(***************************************************************************)
(* randrd: one reconciliation pass of src/main.rs.                         *)
(*                                                                         *)
(* The program reads a desired configuration (monitor name -> MonitorSpec),*)
(* asks the display server for its mode catalog and its monitors, computes *)
(* a sparse Diff per monitor (get_monitor_diff) and applies it             *)
(* (apply_monitor_diff).  The display server is the environment: its live  *)
(* state is crtcs / current_mode / primary, and `rejects` fixes which      *)
(* mutation calls it refuses.                                              *)
(*                                                                         *)
(* Refresh rates are f64 in the source.  They are modelled in hundredths   *)
(* of a Hz (59.9 Hz = 5990), so REFRESH_RATE_TOLERANCE = 1.0 is 100.  The  *)
(* f64 subtraction and comparison against 1.0 agree with the exact ones on *)
(* these values (1.0 is representable and rounding is monotonic).          *)
(***************************************************************************)
EXTENDS Integers, Sequences, FiniteSets, TLC

VARIABLES
    config,        \* args.config.monitors : monitor name -> MonitorSpec (HashMap)
    modes,         \* sr.modes : the mode catalog, a sequence of Mode
    monitors,      \* xhandle.monitors() : the snapshot the loop iterates over
    crtcs,         \* display server, live : crtc id -> Option(Crtc)
    current_mode,  \* display server, live : output xid -> Option(mode xid)
    primary,       \* display server, live : Option(output xid)
    rejects,       \* display server : the <<call, output xid>> pairs it refuses
    pc,            \* position of main
    idx,           \* index of the loop's current monitor
    output,        \* the output get_monitor_diff returned for the current monitor
    diff,          \* the Diff being applied
    calls,         \* mutation calls issued so far, in order
    stdout,        \* lines printed by the loop
    results,       \* per monitor: Option(what get_monitor_diff returned)
    outcome,       \* per monitor: what the loop did with it
    exit           \* how main ended

vars == <<config, modes, monitors, crtcs, current_mode, primary, rejects,
          pc, idx, output, diff, calls, stdout, results, outcome, exit>>

----------------------------------------------------------------------------
(* Option<T> : None is the empty sequence, Some(v) the one-element one.     *)

None == <<>>

Some(v) == <<v>>

IsSome(o) == Len(o) = 1

IsNone(o) == Len(o) = 0

----------------------------------------------------------------------------
(* Bounds and sampled input values.                                         *)

\* Largest number of monitors the display server reports in one pass.
MaxMonitors == 2

Names == <<"eDP-1", "HDMI-1", "DP-1", "DP-2">>

\* The rotations sampled for specs and controllers (xrandr::Rotation has
\* Normal, Left, Inverted, Right; the code only compares them).
Rotations == {"Normal", "Left"}

\* The (x, y) positions sampled for specs and controllers.
Positions == {<<0, 0>>, <<1920, 0>>, <<0, 1080>>}

\* The server's modes, in catalog order.
ModePool ==
    << [xid |-> 1, width |-> 1920, height |-> 1080, rate |-> 5990],
       [xid |-> 2, width |-> 1920, height |-> 1080, rate |-> 6000],
       [xid |-> 3, width |-> 1920, height |-> 1080, rate |-> 7497],
       [xid |-> 4, width |-> 2560, height |-> 1440, rate |-> 6000] >>

Catalogs == {SubSeq(ModePool, 1, n) : n \in 2..Len(ModePool)}

----------------------------------------------------------------------------
(* MonitorSpec::get_compatible_modes                                        *)

REFRESH_RATE_TOLERANCE == 100

\* f64::abs
F64Abs(x) == IF x < 0 THEN -x ELSE x

\* Mutant: only the heights are compared.
ResolutionMatchesHeightOnly(spec, m) == spec.height = m.height

\* First filter: (self.width, self.height) == (m.width, m.height).
ResolutionMatches(spec, m) ==
    <<spec.width, spec.height>> = <<m.width, m.height>>

\* Mutant: the tolerance bound taken as inclusive.
RateMatchesInclusive(spec, m) ==
    \/ IsNone(spec.refresh_rate)
    \/ F64Abs(spec.refresh_rate[1] - m.rate) <= REFRESH_RATE_TOLERANCE

\* Second filter: self.refresh_rate.is_none_or(|r| abs(r - m.rate) < TOLERANCE).
RateMatches(spec, m) ==
    \/ IsNone(spec.refresh_rate)
    \/ F64Abs(spec.refresh_rate[1] - m.rate) < REFRESH_RATE_TOLERANCE

get_compatible_modes(spec, catalog) ==
    LET ByResolution(m) == ResolutionMatches(spec, m)
        ByRate(m) == RateMatches(spec, m)
    IN  SelectSeq(SelectSeq(catalog, ByResolution), ByRate)

----------------------------------------------------------------------------
(* Diff and its equality.                                                   *)

\* Diff::default(): every field None.
DiffDefault ==
    [primary |-> None, position |-> None, rotation |-> None, mode |-> None]

\* impl PartialEq for LimitedMode: only the heights are compared.
LimitedModeEq(a, b) == a.inner.height = b.inner.height

\* Option<T>'s equality for the fields whose T has the derived equality.
OptionEq(a, b) == a = b

\* Mutant: the mode field takes no part in the comparison.
OptionLimitedModeEqIgnored(a, b) == TRUE

\* Option<LimitedMode>'s equality: both None, or both Some and LimitedMode-equal.
OptionLimitedModeEq(a, b) ==
    IF IsSome(a) /\ IsSome(b) THEN LimitedModeEq(a[1], b[1]) ELSE IsNone(a) /\ IsNone(b)

\* #[derive(PartialEq)] for Diff: field by field.
DiffEq(a, b) ==
    /\ OptionEq(a.primary, b.primary)
    /\ OptionEq(a.position, b.position)
    /\ OptionEq(a.rotation, b.rotation)
    /\ OptionLimitedModeEq(a.mode, b.mode)

----------------------------------------------------------------------------
(* get_monitor_diff                                                         *)

Ok(out, d) == [ok |-> TRUE, err |-> "", output |-> out, diff |-> d]

Err(e) == [ok |-> FALSE, err |-> e, output |-> 0, diff |-> DiffDefault]

\* Mutant: the first output is taken whenever there is one.
AtLeastOneOutput(monitor) == Len(monitor.outputs) >= 1

\* let [output] = &monitor.outputs[..] else { bail!(..) }
ExactlyOneOutput(monitor) == Len(monitor.outputs) = 1

\* Mutant: diff.primary follows the spec whenever the flag differs.
PrimaryDiffFollowsSpec(monitor, monitor_config) ==
    IF monitor.is_primary # monitor_config.primary
    THEN Some(monitor_config.primary)
    ELSE None

\* let mut diff = Diff::default(): no statement of get_monitor_diff assigns
\* diff.primary, whatever monitor.is_primary and monitor_config.primary are.
PrimaryDiff(monitor, monitor_config) == None

\* Mutant: the rotation is put in the diff whether it differs or not.
RotationDiffAlways(crtc, monitor_config) == Some(monitor_config.rotation)

\* if crtc.rotation != monitor_config.rotation { diff.rotation = Some(..) }
RotationDiff(crtc, monitor_config) ==
    IF crtc.rotation # monitor_config.rotation
    THEN Some(monitor_config.rotation)
    ELSE None

\* Mutant: the diff carries the controller's position, not the spec's.
PositionDiffFromCrtc(crtc, monitor_config) ==
    IF <<crtc.x, crtc.y>> # <<monitor_config.x, monitor_config.y>>
    THEN Some(<<crtc.x, crtc.y>>)
    ELSE None

\* if (crtc.x, crtc.y) != (monitor_config.x, monitor_config.y) { diff.position = .. }
PositionDiff(crtc, monitor_config) ==
    IF <<crtc.x, crtc.y>> # <<monitor_config.x, monitor_config.y>>
    THEN Some(<<monitor_config.x, monitor_config.y>>)
    ELSE None

\* Mutant: the current mode is accepted only when it is the first compatible one.
CurrentModeIsFirstCompatible(out, compatible_modes) ==
    /\ IsSome(out.current_mode)
    /\ compatible_modes[1].xid = out.current_mode[1]

\* output.current_mode.is_some_and(|id| compatible_modes.iter().any(|m| m.xid == id))
CurrentModeCompatible(out, compatible_modes) ==
    /\ IsSome(out.current_mode)
    /\ \E k \in 1..Len(compatible_modes) :
           compatible_modes[k].xid = out.current_mode[1]

\* Mutant: among several compatible modes the first one is picked.
ModeDiffPicksFirst(out, compatible_modes, d) ==
    IF CurrentModeCompatible(out, compatible_modes)
    THEN Ok(out.xid, d)
    ELSE Ok(out.xid, [d EXCEPT !.mode = Some([inner |-> compatible_modes[1]])])

\* Mutant: among several compatible modes the last one is picked.
ModeDiffPicksLast(out, compatible_modes, d) ==
    IF CurrentModeCompatible(out, compatible_modes)
    THEN Ok(out.xid, d)
    ELSE Ok(out.xid, [d EXCEPT !.mode =
             Some([inner |-> compatible_modes[Len(compatible_modes)]])])

\* Mutant: the single compatible mode is found but not put in the diff.
ModeDiffForgetsMode(out, compatible_modes, d) ==
    IF CurrentModeCompatible(out, compatible_modes)
    THEN Ok(out.xid, d)
    ELSE IF Len(compatible_modes) = 1
         THEN Ok(out.xid, d)
         ELSE Err("found >1 compatible modes")

\* The mode part of get_monitor_diff, once the compatible modes are known to be
\* non-empty: Ok with diff.mode, or the "can't choose" error.
ModeDiff(out, compatible_modes, d) ==
    IF CurrentModeCompatible(out, compatible_modes)
    THEN Ok(out.xid, d)
    ELSE IF Len(compatible_modes) = 1
         THEN Ok(out.xid, [d EXCEPT !.mode = Some([inner |-> compatible_modes[1]])])
         ELSE Err("found >1 compatible modes")

get_monitor_diff(xcrtcs, cfg, monitor, catalog) ==
    IF monitor.name \notin DOMAIN cfg
    THEN Err("unconfigured")
    ELSE IF ~ExactlyOneOutput(monitor)
    THEN Err("has >1 output")
    ELSE LET monitor_config == cfg[monitor.name]
             out == monitor.outputs[1]
         IN  IF IsNone(out.crtc)
             THEN Err("required exactly 1 CRTC")
             ELSE IF IsNone(xcrtcs[out.crtc[1]])
             THEN Err("crtc query failed")
             ELSE LET crtc == xcrtcs[out.crtc[1]][1]
                      d == [DiffDefault EXCEPT
                               !.primary = PrimaryDiff(monitor, monitor_config),
                               !.rotation = RotationDiff(crtc, monitor_config),
                               !.position = PositionDiff(crtc, monitor_config)]
                      compatible_modes ==
                          get_compatible_modes(monitor_config, catalog)
                  IN  IF Len(compatible_modes) = 0
                      THEN Err("unable to find compatible modes")
                      ELSE ModeDiff(out, compatible_modes, d)

----------------------------------------------------------------------------
(* The inputs of one pass: what the display server reports and the config.  *)

CrtcStates ==
    {[rotation |-> r, x |-> p[1], y |-> p[2]] : r \in Rotations, p \in Positions}

DefaultCrtc == [rotation |-> "Normal", x |-> 0, y |-> 0]

\* How a monitor's first output is bound: to no controller (output.crtc is
\* None), to a controller id the server cannot resolve (state None), or to a
\* controller in some state.
Bindings ==
    {[bound |-> FALSE, state |-> None]}
    \cup {[bound |-> TRUE, state |-> s] :
             s \in {None} \cup {Some(c) : c \in CrtcStates}}

\* output.current_mode of the first output: none, or the xid of a mode.
CurrentModes == {None, Some(2), Some(3)}

\* A monitor as the server reports it: its number of outputs, and the binding
\* and current mode of the first one.
WideShapes ==
    {[n |-> 0, binding |-> [bound |-> FALSE, state |-> None], cur |-> None]}
    \cup {[n |-> k, binding |-> b, cur |-> m] :
             k \in 1..3, b \in Bindings, m \in CurrentModes}

NarrowShapes ==
    { [n |-> 1, binding |-> [bound |-> TRUE, state |-> Some(DefaultCrtc)],
       cur |-> Some(2)],
      [n |-> 1, binding |-> [bound |-> TRUE, state |-> Some(DefaultCrtc)],
       cur |-> Some(3)],
      [n |-> 1, binding |-> [bound |-> FALSE, state |-> None], cur |-> None],
      [n |-> 2, binding |-> [bound |-> TRUE, state |-> Some(DefaultCrtc)],
       cur |-> Some(2)] }

WideSpecs ==
    {[width |-> res[1], height |-> res[2], refresh_rate |-> r, primary |-> p,
      rotation |-> rot, x |-> pos[1], y |-> pos[2]] :
        res \in {<<1920, 1080>>, <<2560, 1440>>},
        r \in {None, Some(6000), Some(6004), Some(7497)},
        p \in BOOLEAN, rot \in Rotations, pos \in Positions}

NarrowSpecs ==
    { [width |-> 1920, height |-> 1080, refresh_rate |-> Some(6000),
       primary |-> TRUE, rotation |-> "Left", x |-> 1920, y |-> 0],
      [width |-> 1920, height |-> 1080, refresh_rate |-> Some(7497),
       primary |-> FALSE, rotation |-> "Normal", x |-> 0, y |-> 0] }

\* A pass over one monitor draws it from the wide sets; a pass over several
\* monitors draws each of them from the narrow ones.
Shapes(n) == IF n = 1 THEN WideShapes ELSE NarrowShapes

Specs(n) == IF n = 1 THEN WideSpecs ELSE NarrowSpecs

CatalogsFor(n) == IF n = 1 THEN Catalogs ELSE {ModePool}

\* The xid of output k of monitor i; its controller, when bound, has the same id.
Xid(i, k) == 10 * i + k

MkOutput(i, k, shape) ==
    IF k = 1
    THEN [xid |-> Xid(i, 1),
          crtc |-> IF shape.binding.bound THEN Some(Xid(i, 1)) ELSE None,
          current_mode |-> shape.cur]
    ELSE [xid |-> Xid(i, k), crtc |-> Some(Xid(i, k)), current_mode |-> None]

MkMonitor(i, shape, prim) ==
    [name |-> Names[i],
     is_primary |-> (shape.n >= 1 /\ prim = Some(Xid(i, 1))),
     outputs |-> [k \in 1..shape.n |-> MkOutput(i, k, shape)]]

MutationCalls == {"set_absolute_position", "set_rotation", "set_mode"}

RejectsFor(n) ==
    IF n = 1
    THEN {{}}
    ELSE {{}} \cup {{<<c, Xid(i, 1)>>} : c \in MutationCalls, i \in 1..n}

NameIndex(nm) == CHOOSE i \in 1..Len(Names) : Names[i] = nm

\* The xids of the outputs (and controllers) the server knows.
XidsOf(shapes) ==
    UNION {{Xid(i, k) : k \in 1..shapes[i].n} : i \in DOMAIN shapes}

Init ==
    \E n \in 1..MaxMonitors :
      \E shapes \in [1..n -> Shapes(n)],
         choice \in [1..n -> {None} \cup {Some(sp) : sp \in Specs(n)}],
         prim \in {None, Some(Xid(1, 1))} :
        /\ IsSome(prim) => shapes[1].n >= 1
        /\ monitors = [i \in 1..n |-> MkMonitor(i, shapes[i], prim)]
        /\ config = [nm \in {Names[i] : i \in {j \in 1..n : IsSome(choice[j])}}
                        |-> choice[NameIndex(nm)][1]]
        /\ modes \in CatalogsFor(n)
        /\ crtcs = [id \in XidsOf(shapes) |->
                        IF id % 10 = 1
                        THEN shapes[id \div 10].binding.state
                        ELSE Some(DefaultCrtc)]
        /\ current_mode = [id \in XidsOf(shapes) |->
                              IF id % 10 = 1 THEN shapes[id \div 10].cur ELSE None]
        /\ primary = prim
        /\ rejects \in RejectsFor(n)
        /\ pc = "start"
        /\ idx = 1
        /\ output = 0
        /\ diff = DiffDefault
        /\ calls = <<>>
        /\ stdout = <<>>
        /\ results = [i \in 1..n |-> None]
        /\ outcome = [i \in 1..n |-> "pending"]
        /\ exit = "running"

----------------------------------------------------------------------------
(* The display server's mutation calls, as the loop sees them: a call the   *)
(* server accepts changes the attribute it names and nothing else.          *)

set_primary(prim, out) == Some(out)

set_absolute_position(xcrtcs, out, x, y) ==
    [xcrtcs EXCEPT ![out] = Some([@[1] EXCEPT !.x = x, !.y = y])]

\* Mutant: setting the rotation puts the controller back at the origin.
set_rotation_resets_position(xcrtcs, out, rotation) ==
    [xcrtcs EXCEPT ![out] = Some([rotation |-> rotation, x |-> 0, y |-> 0])]

set_rotation(xcrtcs, out, rotation) ==
    [xcrtcs EXCEPT ![out] = Some([@[1] EXCEPT !.rotation = rotation])]

set_mode(cur, out, mode) == [cur EXCEPT ![out] = Some(mode.xid)]

Rejected(call, out) == <<call, out>> \in rejects

Call(call, out, arg, ok) == [call |-> call, output |-> out, arg |-> arg, ok |-> ok]

----------------------------------------------------------------------------
(* apply_monitor_diff: one stage per field of the Diff, in statement order. *)

\* Mutant: the mode is set before the rotation.
ApplySequenceModeEarly ==
    <<"set_primary", "set_absolute_position", "set_mode", "set_rotation">>

ApplySequence ==
    <<"set_primary", "set_absolute_position", "set_rotation", "set_mode">>

StageAfter(stage) ==
    LET k == CHOOSE j \in 1..Len(ApplySequence) : ApplySequence[j] = stage
    IN  IF k = Len(ApplySequence) THEN "return" ELSE ApplySequence[k + 1]

\* The stage is over without an error: go on to the next one, or return Ok(())
\* to the loop, which takes the next monitor.
Proceed(stage) ==
    IF StageAfter(stage) = "return"
    THEN /\ pc' = "loop"
         /\ idx' = idx + 1
         /\ outcome' = [outcome EXCEPT ![idx] = "applied"]
    ELSE /\ pc' = StageAfter(stage)
         /\ UNCHANGED <<idx, outcome>>

\* Mutant: the call's error is dropped and apply_monitor_diff returns Ok(()).
PropagateReturnsOk ==
    /\ pc' = "loop"
    /\ idx' = idx + 1
    /\ outcome' = [outcome EXCEPT ![idx] = "applied"]
    /\ UNCHANGED exit

\* The call returned Err: `?` in apply_monitor_diff returns it, and `?` on the
\* call in main returns it from main.
Propagate ==
    /\ pc' = "done"
    /\ exit' = "apply_error"
    /\ outcome' = [outcome EXCEPT ![idx] = "failed"]
    /\ UNCHANGED idx

ApplyPrimary ==
    /\ pc = "set_primary"
    /\ IF diff.primary = Some(TRUE)
       THEN /\ primary' = set_primary(primary, output)
            /\ calls' = Append(calls, Call("set_primary", output, TRUE, TRUE))
            /\ Proceed("set_primary")
            /\ UNCHANGED exit
       ELSE IF diff.primary = Some(FALSE)
       THEN \* unimplemented!()
            /\ pc' = "done"
            /\ exit' = "panic"
            /\ outcome' = [outcome EXCEPT ![idx] = "failed"]
            /\ UNCHANGED <<primary, calls, idx>>
       ELSE /\ Proceed("set_primary")
            /\ UNCHANGED <<primary, calls, exit>>
    /\ UNCHANGED <<config, modes, monitors, crtcs, current_mode, rejects,
                   output, diff, stdout, results>>

ApplyPosition ==
    /\ pc = "set_absolute_position"
    /\ IF IsSome(diff.position)
       THEN LET x == diff.position[1][1]
                y == diff.position[1][2]
                ok == ~Rejected("set_absolute_position", output)
            IN  /\ calls' = Append(calls,
                        Call("set_absolute_position", output, <<x, y>>, ok))
                /\ IF ok
                   THEN /\ crtcs' = set_absolute_position(crtcs, output, x, y)
                        /\ Proceed("set_absolute_position")
                        /\ UNCHANGED exit
                   ELSE /\ Propagate
                        /\ UNCHANGED crtcs
       ELSE /\ Proceed("set_absolute_position")
            /\ UNCHANGED <<crtcs, calls, exit>>
    /\ UNCHANGED <<config, modes, monitors, current_mode, primary, rejects,
                   output, diff, stdout, results>>

ApplyRotation ==
    /\ pc = "set_rotation"
    /\ IF IsSome(diff.rotation)
       THEN LET ok == ~Rejected("set_rotation", output)
            IN  /\ calls' = Append(calls,
                        Call("set_rotation", output, diff.rotation[1], ok))
                /\ IF ok
                   THEN /\ crtcs' = set_rotation(crtcs, output, diff.rotation[1])
                        /\ Proceed("set_rotation")
                        /\ UNCHANGED exit
                   ELSE /\ Propagate
                        /\ UNCHANGED crtcs
       ELSE /\ Proceed("set_rotation")
            /\ UNCHANGED <<crtcs, calls, exit>>
    /\ UNCHANGED <<config, modes, monitors, current_mode, primary, rejects,
                   output, diff, stdout, results>>

ApplyMode ==
    /\ pc = "set_mode"
    /\ IF IsSome(diff.mode)
       THEN LET ok == ~Rejected("set_mode", output)
            IN  /\ calls' = Append(calls,
                        Call("set_mode", output, diff.mode[1].inner.xid, ok))
                /\ IF ok
                   THEN /\ current_mode' =
                               set_mode(current_mode, output, diff.mode[1].inner)
                        /\ Proceed("set_mode")
                        /\ UNCHANGED exit
                   ELSE /\ Propagate
                        /\ UNCHANGED current_mode
       ELSE /\ Proceed("set_mode")
            /\ UNCHANGED <<current_mode, calls, exit>>
    /\ UNCHANGED <<config, modes, monitors, crtcs, primary, rejects,
                   output, diff, stdout, results>>

----------------------------------------------------------------------------
(* main *)

\* One of the `?` before the loop returns an error: the PID lock file, the
\* display server connection, the screen resources or the monitor list.
StartupFail ==
    /\ pc = "start"
    /\ pc' = "done"
    /\ exit' = "startup_error"
    /\ UNCHANGED <<config, modes, monitors, crtcs, current_mode, primary,
                   rejects, idx, output, diff, calls, stdout, results, outcome>>

StartupOk ==
    /\ pc = "start"
    /\ pc' = "loop"
    /\ UNCHANGED <<config, modes, monitors, crtcs, current_mode, primary,
                   rejects, idx, output, diff, calls, stdout, results, outcome,
                   exit>>

\* The body of the for loop up to the call of apply_monitor_diff.
LoopIter ==
    /\ pc = "loop"
    /\ idx <= Len(monitors)
    /\ LET monitor == monitors[idx]
           r == get_monitor_diff(crtcs, config, monitor, modes)
       IN  /\ results' = [results EXCEPT ![idx] = Some(r)]
           /\ IF ~r.ok
              THEN \* Err(e) => println!("{:?}", e)
                   /\ stdout' = Append(stdout,
                          [monitor |-> monitor.name, line |-> r.err])
                   /\ outcome' = [outcome EXCEPT ![idx] = "skipped"]
                   /\ idx' = idx + 1
                   /\ UNCHANGED <<pc, output, diff>>
              ELSE IF DiffEq(r.diff, DiffDefault)
              THEN \* Ok((_, diff)) if diff == Diff::default() => {}
                   /\ outcome' = [outcome EXCEPT ![idx] = "no_change"]
                   /\ idx' = idx + 1
                   /\ UNCHANGED <<pc, output, diff, stdout>>
              ELSE \* Ok((output, diff)) => println!(..); apply_monitor_diff(..)
                   /\ stdout' = Append(stdout,
                          [monitor |-> monitor.name, line |-> "has diff"])
                   /\ output' = r.output
                   /\ diff' = r.diff
                   /\ pc' = ApplySequence[1]
                   /\ outcome' = [outcome EXCEPT ![idx] = "applying"]
                   /\ UNCHANGED idx
    /\ UNCHANGED <<config, modes, monitors, crtcs, current_mode, primary,
                   rejects, calls, exit>>

\* The loop is over: Ok(()).
LoopExit ==
    /\ pc = "loop"
    /\ idx > Len(monitors)
    /\ pc' = "done"
    /\ exit' = "ok"
    /\ UNCHANGED <<config, modes, monitors, crtcs, current_mode, primary,
                   rejects, idx, output, diff, calls, stdout, results, outcome>>

Next ==
    \/ StartupFail
    \/ StartupOk
    \/ LoopIter
    \/ ApplyPrimary
    \/ ApplyPosition
    \/ ApplyRotation
    \/ ApplyMode
    \/ LoopExit

Spec == Init /\ [][Next]_vars

----------------------------------------------------------------------------
(* apply_monitor_diff as a function of its arguments: the state at its      *)
(* entry, for any Diff and any output bound to a controller.                *)

AnyDiffs ==
    [primary : {None, Some(TRUE), Some(FALSE)},
     position : {None} \cup {Some(p) : p \in Positions},
     rotation : {None} \cup {Some(r) : r \in Rotations},
     mode : {None} \cup {Some([inner |-> ModePool[k]]) : k \in DOMAIN ModePool}]

InitApply ==
    \E c \in CrtcStates, d \in AnyDiffs :
        /\ monitors = <<[name |-> Names[1], is_primary |-> FALSE,
                         outputs |-> <<[xid |-> Xid(1, 1),
                                        crtc |-> Some(Xid(1, 1)),
                                        current_mode |-> Some(2)]>>]>>
        /\ config = [nm \in {} |-> None]
        /\ modes = ModePool
        /\ crtcs = [id \in {Xid(1, 1)} |-> Some(c)]
        /\ current_mode = [id \in {Xid(1, 1)} |-> Some(2)]
        /\ primary = None
        /\ rejects \in {{}} \cup {{<<call, Xid(1, 1)>>} : call \in MutationCalls}
        /\ pc = ApplySequence[1]
        /\ idx = 1
        /\ output = Xid(1, 1)
        /\ diff = d
        /\ calls = <<>>
        /\ stdout = <<>>
        /\ results = <<Some(Ok(Xid(1, 1), d))>>
        /\ outcome = <<"applying">>
        /\ exit = "running"

NextApply ==
    \/ ApplyPrimary
    \/ ApplyPosition
    \/ ApplyRotation
    \/ ApplyMode

SpecApply == InitApply /\ [][NextApply]_vars

----------------------------------------------------------------------------
(* get_compatible_modes as a function of its arguments: any spec against    *)
(* any short catalog, with rates on both sides of the tolerance.            *)

\* Longest catalog handed to get_compatible_modes.
MaxCatalog == 2

\* Widths, heights and rates of the catalog's modes: rates at distance
\* 0, 0.1, 0.9, 1.0 and more from the target rates, above and below.
ModeShapes ==
    {[width |-> res[1], height |-> res[2], rate |-> r] :
        res \in {<<1920, 1080>>, <<2560, 1080>>, <<1920, 1200>>},
        r \in {5900, 5990, 6000, 6100}}

ShapeCatalogs ==
    UNION {[1..n -> ModeShapes] : n \in 0..MaxCatalog}

\* The server gives every mode its own xid.
WithXids(shapes) ==
    [k \in DOMAIN shapes |->
        [xid |-> k, width |-> shapes[k].width, height |-> shapes[k].height,
         rate |-> shapes[k].rate]]

QuerySpecs ==
    {[width |-> 1920, height |-> h, refresh_rate |-> r, primary |-> FALSE,
      rotation |-> "Normal", x |-> 0, y |-> 0] :
        h \in {1080, 1200}, r \in {None, Some(6000), Some(6090)}}

InitModes ==
    \E sp \in QuerySpecs, shapes \in ShapeCatalogs :
        /\ config = [nm \in {Names[1]} |-> sp]
        /\ modes = WithXids(shapes)
        /\ monitors = <<>>
        /\ crtcs = [id \in {} |-> None]
        /\ current_mode = [id \in {} |-> None]
        /\ primary = None
        /\ rejects = {}
        /\ pc = "query"
        /\ idx = 1
        /\ output = 0
        /\ diff = DiffDefault
        /\ calls = <<>>
        /\ stdout = <<>>
        /\ results = <<None>>
        /\ outcome = <<"pending">>
        /\ exit = "running"

\* let compatible_modes = monitor_config.get_compatible_modes(&sr.modes)
QueryModes ==
    /\ pc = "query"
    /\ results' = <<Some(get_compatible_modes(config[Names[1]], modes))>>
    /\ pc' = "queried"
    /\ UNCHANGED <<config, modes, monitors, crtcs, current_mode, primary,
                   rejects, idx, output, diff, calls, stdout, outcome, exit>>

NextModes == QueryModes

SpecModes == InitModes /\ [][NextModes]_vars

----------------------------------------------------------------------------
(* The vocabulary of the properties, stated on the pass's inputs.           *)

Configured(i) == monitors[i].name \in DOMAIN config

SpecOf(i) == config[monitors[i].name]

SingleOutput(i) == Len(monitors[i].outputs) = 1

FirstOutput(i) == monitors[i].outputs[1]

\* The output names a controller and the server knows that controller.
BoundToController(i) ==
    /\ IsSome(FirstOutput(i).crtc)
    /\ IsSome(crtcs[FirstOutput(i).crtc[1]])

ControllerOf(i) == crtcs[FirstOutput(i).crtc[1]][1]

\* A mode is within tolerance of rate r when it is less than 1.0 Hz below it
\* and less than 1.0 Hz above it.
WithinTolerance(rate, r) ==
    /\ rate - r < REFRESH_RATE_TOLERANCE
    /\ r - rate < REFRESH_RATE_TOLERANCE

\* The catalog modes of the spec's resolution, within tolerance of its rate
\* when it has one.
CompatibleWith(sp) ==
    {m \in {modes[k] : k \in DOMAIN modes} :
        /\ m.width = sp.width
        /\ m.height = sp.height
        /\ IsSome(sp.refresh_rate) => WithinTolerance(m.rate, sp.refresh_rate[1])}

CurrentAmong(i, compatible) ==
    /\ IsSome(FirstOutput(i).current_mode)
    /\ \E m \in compatible : m.xid = FirstOutput(i).current_mode[1]

\* Configured, exactly one output, and that output bound to a controller.
Reconcilable(i) ==
    /\ Configured(i)
    /\ SingleOutput(i)
    /\ BoundToController(i)

Ambiguous(i) ==
    /\ ~CurrentAmong(i, CompatibleWith(SpecOf(i)))
    /\ Cardinality(CompatibleWith(SpecOf(i))) >= 2

\* The monitors the loop has to leave alone.
MustSkip(i) ==
    IF ~Configured(i) \/ ~SingleOutput(i) THEN TRUE
    ELSE \/ IsNone(FirstOutput(i).crtc)
         \/ CompatibleWith(SpecOf(i)) = {}
         \/ Ambiguous(i)

Computed(i) == IsSome(results[i])

Result(i) == results[i][1]

XidsOfMonitor(i) ==
    {monitors[i].outputs[k].xid : k \in DOMAIN monitors[i].outputs}

\* The monitor as the server would report it now.
Requery(i) ==
    [name |-> monitors[i].name,
     is_primary |-> (Len(monitors[i].outputs) >= 1
                     /\ primary = Some(monitors[i].outputs[1].xid)),
     outputs |-> [k \in DOMAIN monitors[i].outputs |->
                    [xid |-> monitors[i].outputs[k].xid,
                     crtc |-> monitors[i].outputs[k].crtc,
                     current_mode |-> current_mode[monitors[i].outputs[k].xid]]]]

\* The order the Diff Applier is to follow.
CallRank(call) ==
    CASE call = "set_primary" -> 1
      [] call = "set_absolute_position" -> 2
      [] call = "set_rotation" -> 3
      [] call = "set_mode" -> 4

----------------------------------------------------------------------------
(* C1 - Idempotence: once a non-neutral Diff has been applied to a monitor  *)
(* with every call accepted, get_monitor_diff on the monitor as the server  *)
(* now reports it returns the neutral Diff, all four fields absent; also    *)
(* for specs with primary = true.                                           *)
C1_ApplyThenDiffIsNeutral ==
    \A i \in DOMAIN monitors :
        outcome[i] = "applied" =>
            LET again == get_monitor_diff(crtcs, config, Requery(i), modes)
            IN  /\ again.ok
                /\ again.diff = DiffDefault

C1_Witness ==
    \E i \in DOMAIN monitors :
        /\ outcome[i] = "applied"
        /\ SpecOf(i).primary
        /\ IsSome(Result(i).diff.mode)
        /\ IsSome(Result(i).diff.position)
        /\ IsSome(Result(i).diff.rotation)

(* C2 - A rejected mutation call for one monitor does not stop the pass:    *)
(* when main has ended after one monitor's apply failed, every monitor of   *)
(* the pass has had its diff computed and none is left mid-way.             *)
C2_FailureDoesNotStopThePass ==
    (pc = "done" /\ \E i \in DOMAIN monitors : outcome[i] = "failed") =>
        \A j \in DOMAIN monitors : Computed(j) /\ outcome[j] # "pending"

(* C3 - Once startup has succeeded main exits with success whatever the     *)
(* monitors' outcomes: the only unsuccessful exit is a startup failure.     *)
C3_OnlyStartupFailsTheProcess ==
    pc = "done" => exit \in {"ok", "startup_error"}

(* C4 - A monitor that is unconfigured, has not exactly one output, has an  *)
(* output with no controller, has no compatible mode or has an ambiguous    *)
(* mode is skipped: the loop's step for it issues no mutation call, changes *)
(* nothing on the server and goes on to the next monitor, and no call is    *)
(* ever issued for one of its outputs.                                      *)
C4_SkippedMonitorsUntouched ==
    [][ /\ (pc = "loop" /\ idx <= Len(monitors) /\ MustSkip(idx)) =>
              /\ pc' = "loop"
              /\ idx' = idx + 1
              /\ exit' = "running"
              /\ calls' = calls
              /\ crtcs' = crtcs
              /\ current_mode' = current_mode
              /\ primary' = primary
        /\ \A i \in DOMAIN monitors : MustSkip(i) =>
              \A k \in DOMAIN calls' : calls'[k].output \notin XidsOfMonitor(i)
      ]_vars

C4_Witness ==
    \E i, j \in DOMAIN monitors :
        /\ i < j
        /\ outcome[i] = "skipped"
        /\ Reconcilable(i)
        /\ Ambiguous(i)
        /\ ControllerOf(i).rotation # SpecOf(i).rotation
        /\ <<ControllerOf(i).x, ControllerOf(i).y>> # <<SpecOf(i).x, SpecOf(i).y>>
        /\ outcome[j] = "applied"

(* C5 - apply_monitor_diff issues its calls in the order set_primary,       *)
(* set_absolute_position, set_rotation, set_mode: for any Diff, of two      *)
(* calls for the same output the earlier one is earlier in this order, so   *)
(* set_mode is never followed by another call.                              *)
C5_CallsInFixedOrder ==
    \A j, k \in DOMAIN calls :
        (j < k /\ calls[j].output = calls[k].output) =>
            CallRank(calls[j].call) < CallRank(calls[k].call)

C5_Witness ==
    /\ Len(calls) = 4
    /\ calls[1].call = "set_primary"
    /\ calls[4].call = "set_mode"
    /\ pc = "loop"

C7_CurrentCompatibleModeIsKept ==
    \A i \in DOMAIN monitors :
        (Computed(i) /\ Reconcilable(i)
            /\ CurrentAmong(i, CompatibleWith(SpecOf(i)))) =>
            /\ Result(i).ok
            /\ IsNone(Result(i).diff.mode)

C7_Witness ==
    \E i \in DOMAIN monitors :
        /\ Computed(i)
        /\ Reconcilable(i)
        /\ CurrentAmong(i, CompatibleWith(SpecOf(i)))
        /\ Cardinality(CompatibleWith(SpecOf(i))) >= 2
        /\ FirstOutput(i).current_mode = Some(2)

(* C8 - For a configured monitor with one output bound to a controller,     *)
(* whose current mode is absent or not among the compatible modes while     *)
(* exactly one compatible mode exists, get_monitor_diff returns a diff      *)
(* whose mode is that mode.                                                 *)
C8_SingleCompatibleModeIsChosen ==
    \A i \in DOMAIN monitors :
        (Computed(i) /\ Reconcilable(i)
            /\ ~CurrentAmong(i, CompatibleWith(SpecOf(i)))
            /\ Cardinality(CompatibleWith(SpecOf(i))) = 1) =>
            /\ Result(i).ok
            /\ \E m \in CompatibleWith(SpecOf(i)) :
                   Result(i).diff.mode = Some([inner |-> m])

C8_Witness ==
    \E i \in DOMAIN monitors :
        /\ Computed(i)
        /\ Reconcilable(i)
        /\ FirstOutput(i).current_mode = Some(2)
        /\ CompatibleWith(SpecOf(i)) = {ModePool[3]}
        /\ Result(i).ok

(* C9 - A configured monitor whose output list has not exactly one element  *)
(* makes get_monitor_diff fail with the output-count error, whatever its    *)
(* controller binding, position, rotation or the catalog.                   *)
C9_NotOneOutputIsAnError ==
    \A i \in DOMAIN monitors :
        (Computed(i) /\ Configured(i) /\ ~SingleOutput(i)) =>
            /\ ~Result(i).ok
            /\ Result(i).err = "has >1 output"

C9_Witness ==
    \E i \in DOMAIN monitors :
        /\ Computed(i)
        /\ Configured(i)
        /\ Len(monitors[i].outputs) = 2
        /\ BoundToController(i)
        /\ CompatibleWith(SpecOf(i)) = {}

(* C10 - With refresh_rate = Some(r), get_compatible_modes includes a mode  *)
(* of the spec's resolution exactly when its rate is less than 1.0 away     *)
(* from r: rate r itself is included, a distance of exactly 1.0 or more is  *)
(* excluded on either side, and a mode of another width or height is never  *)
(* included.                                                                *)
C10_ToleranceIsExclusive ==
    (pc = "queried" /\ IsSome(config[Names[1]].refresh_rate)) =>
        LET sp == config[Names[1]]
            r == sp.refresh_rate[1]
            Included(m) == \E j \in DOMAIN Result(1) : Result(1)[j] = m
            SameResolution(m) == m.width = sp.width /\ m.height = sp.height
        IN  \A k \in DOMAIN modes :
                /\ (SameResolution(modes[k]) /\ modes[k].rate = r)
                       => Included(modes[k])
                /\ (SameResolution(modes[k]) /\ WithinTolerance(modes[k].rate, r))
                       => Included(modes[k])
                /\ (modes[k].rate - r >= REFRESH_RATE_TOLERANCE
                        \/ r - modes[k].rate >= REFRESH_RATE_TOLERANCE)
                       => ~Included(modes[k])
                /\ ~SameResolution(modes[k]) => ~Included(modes[k])

\* 59.0 against target 60.0 is excluded, 59.9 is included.
C10_Witness ==
    /\ pc = "queried"
    /\ config[Names[1]].refresh_rate = Some(6000)
    /\ Len(modes) = 2
    /\ modes[1].rate = 5900
    /\ modes[2].rate = 5990
    /\ modes[1].height = config[Names[1]].height
    /\ modes[2].height = config[Names[1]].height
    /\ modes[1].width = 1920
    /\ modes[2].width = 1920
    /\ Len(Result(1)) = 1

(* C11 - With refresh_rate = None, get_compatible_modes returns exactly the *)
(* catalog modes of the spec's width and height, whatever their rate, in    *)
(* the catalog's order, none added and none twice; the empty sequence when  *)
(* none matches.                                                            *)
C11_NoRateKeepsEveryModeOfTheResolution ==
    (pc = "queried" /\ IsNone(config[Names[1]].refresh_rate)) =>
        LET sp == config[Names[1]]
            matching == {k \in DOMAIN modes :
                            modes[k].width = sp.width /\ modes[k].height = sp.height}
        IN  /\ Len(Result(1)) = Cardinality(matching)
            /\ \A j \in DOMAIN Result(1) :
                   \E k \in matching : Result(1)[j] = modes[k]
            /\ \A k \in matching :
                   \E j \in DOMAIN Result(1) : Result(1)[j] = modes[k]
            \* the catalog gives mode k the xid k: increasing xids are catalog order
            /\ \A j, l \in DOMAIN Result(1) :
                   j < l => Result(1)[j].xid < Result(1)[l].xid

\* Two modes of the resolution, at rates 2 Hz apart, both kept, in order.
C11_Witness ==
    /\ pc = "queried"
    /\ IsNone(config[Names[1]].refresh_rate)
    /\ Len(modes) = 2
    /\ modes[1].rate = 6100
    /\ modes[2].rate = 5900
    /\ Result(1) = modes

----------------------------------------------------------------------------
(* What a monitor gets when it is the first of the pass, from its own       *)
(* inputs: the result of get_monitor_diff, the calls for the fields present *)
(* up to the first one the server rejects, and the outcome.                 *)

DiffFor(i) ==
    IF Computed(i)
    THEN Result(i)
    ELSE get_monitor_diff(crtcs, config, monitors[i], modes)

FieldPresent(d, call) ==
    CASE call = "set_primary" -> IsSome(d.primary)
      [] call = "set_absolute_position" -> IsSome(d.position)
      [] call = "set_rotation" -> IsSome(d.rotation)
      [] call = "set_mode" -> IsSome(d.mode)

CallsWhenFirst(i) ==
    LET r == DiffFor(i)
        Wanted(call) == FieldPresent(r.diff, call)
        wanted == SelectSeq(<<"set_primary", "set_absolute_position",
                              "set_rotation", "set_mode">>, Wanted)
        refused == {k \in DOMAIN wanted : Rejected(wanted[k], r.output)}
    IN  IF ~r.ok THEN <<>>
        ELSE IF refused = {} THEN wanted
        ELSE SubSeq(wanted, 1, CHOOSE k \in refused : \A l \in refused : k <= l)

OutcomeWhenFirst(i) ==
    LET r == DiffFor(i)
    IN  IF ~r.ok THEN "skipped"
        ELSE IF CallsWhenFirst(i) = <<>> THEN "no_change"
        ELSE IF Rejected(CallsWhenFirst(i)[Len(CallsWhenFirst(i))], r.output)
        THEN "failed"
        ELSE "applied"

CallsFor(i) ==
    LET Mine(c) == c.output \in XidsOfMonitor(i)
        mine == SelectSeq(calls, Mine)
    IN  [k \in DOMAIN mine |-> mine[k].call]

(* C12 - The order of the monitors does not affect the result: a monitor    *)
(* gets the same outcome and the same mutation calls wherever it stands in  *)
(* the list, that is, the ones it gets when it is the first monitor of the  *)
(* pass.                                                                    *)
C12_OutcomeIndependentOfPosition ==
    (pc = "done" /\ exit # "startup_error") =>
        \A i \in DOMAIN monitors :
            /\ outcome[i] = OutcomeWhenFirst(i)
            /\ CallsFor(i) = CallsWhenFirst(i)

\* The same statement for the first monitor only: it holds, so the operators
\* above do describe what the first monitor of a pass gets.
FirstMonitorGetsItsOwnOutcome ==
    (pc = "done" /\ exit # "startup_error" /\ Len(monitors) >= 1) =>
        /\ outcome[1] = OutcomeWhenFirst(1)
        /\ CallsFor(1) = CallsWhenFirst(1)

(* C13 - For a configured monitor with one output bound to a controller and *)
(* a resolvable mode, the diff has primary = Some(true) when the spec asks  *)
(* for primary = true and the monitor is not primary, and primary absent    *)
(* when the spec has primary = false or the monitor is primary already.     *)
C13_PrimaryRequestedIsInTheDiff ==
    \A i \in DOMAIN monitors :
        (Computed(i) /\ Result(i).ok) =>
            IF SpecOf(i).primary /\ ~monitors[i].is_primary
            THEN Result(i).diff.primary = Some(TRUE)
            ELSE IsNone(Result(i).diff.primary)

(* C14 - A monitor is never demoted: the Diff get_monitor_diff returns and  *)
(* the Diff handed to apply_monitor_diff has primary absent or Some(true),  *)
(* never Some(false), also for a spec with primary = false on the primary   *)
(* monitor, so the unimplemented!() arm is not reached and main does not    *)
(* panic.                                                                   *)
C14_NeverDemoted ==
    /\ diff.primary # Some(FALSE)
    /\ \A i \in DOMAIN monitors :
           Computed(i) => Result(i).diff.primary # Some(FALSE)
    /\ exit # "panic"

\* apply_monitor_diff entered for the primary monitor with primary = false.
C14_Witness ==
    /\ pc = "set_primary"
    /\ monitors[idx].is_primary
    /\ ~SpecOf(idx).primary

\* What an accepted call leaves on the server.
EffectVisible(c) ==
    CASE c.call = "set_primary" -> primary = Some(c.output)
      [] c.call = "set_absolute_position" ->
             <<crtcs[c.output][1].x, crtcs[c.output][1].y>> = c.arg
      [] c.call = "set_rotation" -> crtcs[c.output][1].rotation = c.arg
      [] c.call = "set_mode" -> current_mode[c.output] = Some(c.arg)

(* C15 - When the server rejects a call of apply_monitor_diff, the function *)
(* returns the error, no later call of the diff is issued, and the calls    *)
(* accepted before it stay applied.                                         *)
C15_RejectionStopsApplyWithoutRollback ==
    \A k \in DOMAIN calls :
        IF calls[k].ok
        THEN EffectVisible(calls[k])
        ELSE /\ k = Len(calls)
             /\ pc = "done"
             /\ exit = "apply_error"
             /\ outcome[idx] = "failed"

\* Primary and position were set, the rotation was rejected, the mode was due.
C15_Witness ==
    /\ Len(calls) = 3
    /\ calls[1].call = "set_primary"
    /\ calls[2].call = "set_absolute_position"
    /\ calls[3].call = "set_rotation"
    /\ ~calls[3].ok
    /\ IsSome(diff.mode)
    /\ primary = Some(output)

\* The controller of output out, or <<>> when the server has none for it.
PositionOf(xcrtcs, out) ==
    IF IsSome(xcrtcs[out]) THEN <<xcrtcs[out][1].x, xcrtcs[out][1].y>> ELSE <<>>

RotationOf(xcrtcs, out) ==
    IF IsSome(xcrtcs[out]) THEN <<xcrtcs[out][1].rotation>> ELSE <<>>

AllAbsent(d) ==
    /\ IsNone(d.primary)
    /\ IsNone(d.position)
    /\ IsNone(d.rotation)
    /\ IsNone(d.mode)

\* One step of the pass, for C16.
C16_Step ==
    /\ Len(calls') <= Len(calls) + 1
    /\ \A k \in DOMAIN calls' \ DOMAIN calls :
           /\ calls'[k].call = pc
           /\ calls'[k].output = output
           /\ FieldPresent(diff, calls'[k].call)
           /\ \A j \in DOMAIN calls :
                  <<calls[j].call, calls[j].output>>
                      # <<calls'[k].call, calls'[k].output>>
    /\ primary' # primary => pc = "set_primary" /\ IsSome(diff.primary)
    /\ \A out \in DOMAIN crtcs :
           /\ PositionOf(crtcs', out) # PositionOf(crtcs, out) =>
                  /\ pc = "set_absolute_position"
                  /\ IsSome(diff.position)
                  /\ out = output
           /\ RotationOf(crtcs', out) # RotationOf(crtcs, out) =>
                  /\ pc = "set_rotation"
                  /\ IsSome(diff.rotation)
                  /\ out = output
    /\ \A out \in DOMAIN current_mode :
           current_mode'[out] # current_mode[out] =>
               /\ pc = "set_mode"
               /\ IsSome(diff.mode)
               /\ out = output
    /\ (/\ pc = "loop"
        /\ idx \in DOMAIN monitors
        /\ results'[idx][1].ok
        /\ AllAbsent(results'[idx][1].diff)) =>
           /\ pc' = "loop"
           /\ idx' = idx + 1
           /\ calls' = calls
           /\ outcome'[idx] = "no_change"

(* C16 - A mutation call is issued only for a field present in the Diff and *)
(* at most once per output; an attribute whose field is absent is left      *)
(* unchanged by apply_monitor_diff; for a Diff with every field absent the  *)
(* loop goes on to the next monitor without entering apply_monitor_diff and *)
(* without any mutation call.                                               *)
C16_CallsOnlyForPresentFields == [][C16_Step]_vars

\* One monitor was left alone as no-change, another had its rotation set but
\* no mode, so set_mode was skipped for it.
C16_Witness ==
    \E i, j \in DOMAIN monitors :
        /\ outcome[i] = "no_change"
        /\ outcome[j] = "applied"
        /\ IsSome(Result(j).diff.rotation)
        /\ IsNone(Result(j).diff.mode)
        /\ \E k \in DOMAIN calls : calls[k].call = "set_rotation"
        /\ \A k \in DOMAIN calls : calls[k].call # "set_mode"

\* The step in which get_monitor_diff returns a diff for monitor idx.
ReturnsDiff ==
    /\ pc = "loop"
    /\ idx \in DOMAIN monitors
    /\ results'[idx][1].ok

C17_Step ==
    ReturnsDiff =>
        LET d == results'[idx][1].diff
            sp == SpecOf(idx)
            crtc == ControllerOf(idx)
        IN  /\ IsSome(d.rotation) <=> crtc.rotation # sp.rotation
            /\ IsSome(d.rotation) => d.rotation[1] = sp.rotation
            /\ IsSome(d.position) <=> <<crtc.x, crtc.y>> # <<sp.x, sp.y>>
            /\ IsSome(d.position) => d.position[1] = <<sp.x, sp.y>>

(* C17 - In a diff returned by get_monitor_diff the rotation is present     *)
(* exactly when the controller's rotation differs from the spec's, and then *)
(* is the spec's rotation; the position is present exactly when the         *)
(* controller's (x, y) differs from the spec's, and then is the spec's      *)
(* (x, y).                                                                  *)
C17_RotationAndPositionOnlyWhenTheyDiffer == [][C17_Step]_vars

\* get_monitor_diff has just returned a diff with the rotation present and
\* the position absent, for a controller at the spec's position but not in
\* its rotation.
C17_Witness ==
    /\ pc = "set_primary"
    /\ Result(idx).ok
    /\ IsSome(Result(idx).diff.rotation)
    /\ IsNone(Result(idx).diff.position)
    /\ ControllerOf(idx).rotation # SpecOf(idx).rotation
    /\ <<ControllerOf(idx).x, ControllerOf(idx).y>> = <<SpecOf(idx).x, SpecOf(idx).y>>

(* C18 - A pass that got past start-up prints exactly one line for every    *)
(* monitor the server returned, in the order of the monitors, whatever the  *)
(* monitor's outcome.                                                       *)
C18_OneLinePerMonitor ==
    (pc = "done" /\ exit # "startup_error") =>
        /\ Len(stdout) = Len(monitors)
        /\ \A i \in DOMAIN monitors : stdout[i].monitor = monitors[i].name

\* The compatible modes whose rate is nearest to r.
Closest(compatible, r) ==
    {m \in compatible :
        \A o \in compatible : F64Abs(m.rate - r) <= F64Abs(o.rate - r)}

(* C19 - When the spec's refresh_rate is the rate of no compatible mode,    *)
(* the compatible mode (same resolution, within tolerance) whose rate is    *)
(* nearest to it is the mode selected for the monitor.                      *)
C19_ClosestModeWins ==
    \A i \in DOMAIN monitors :
        (/\ Computed(i)
         /\ Reconcilable(i)
         /\ IsSome(SpecOf(i).refresh_rate)
         /\ CompatibleWith(SpecOf(i)) # {}
         /\ \A m \in CompatibleWith(SpecOf(i)) :
                m.rate # SpecOf(i).refresh_rate[1]
         /\ ~CurrentAmong(i, CompatibleWith(SpecOf(i)))) =>
            /\ Result(i).ok
            /\ IsSome(Result(i).diff.mode)
            /\ \E m \in Closest(CompatibleWith(SpecOf(i)),
                                SpecOf(i).refresh_rate[1]) :
                   Result(i).diff.mode[1].inner.xid = m.xid

(* C20 - A returned diff is taken for "no change" exactly when its four     *)
(* fields are absent: diff == Diff::default() holds for no diff with a      *)
(* present mode, position, rotation or primary, although LimitedMode        *)
(* equality looks at the height only.                                       *)
C20_NeutralExactlyWhenAllAbsent ==
    \A i \in DOMAIN monitors :
        (Computed(i) /\ Result(i).ok) =>
            /\ DiffEq(Result(i).diff, DiffDefault) <=> AllAbsent(Result(i).diff)
            /\ outcome[i] = "no_change" <=> AllAbsent(Result(i).diff)

\* A diff with nothing but a mode went to apply_monitor_diff and set_mode
\* was called for it.
C20_Witness ==
    \E i \in DOMAIN monitors :
        /\ Computed(i) /\ Result(i).ok
        /\ IsSome(Result(i).diff.mode)
        /\ IsNone(Result(i).diff.position)
        /\ IsNone(Result(i).diff.rotation)
        /\ IsNone(Result(i).diff.primary)
        /\ outcome[i] = "applied"
        /\ \E k \in DOMAIN calls :
               calls[k].call = "set_mode" /\ calls[k].output = Result(i).output

====
